---- MODULE Spec2Model ----
(***************************************************************************)
(* Model of package httperrors: chains of *baseHTTPError links that wrap   *)
(* each other or a foreign error, the constructors that build them, the    *)
(* setters that mutate one link, and the accessors that resolve a value    *)
(* by walking the chain from a link inward.                                *)
(*                                                                         *)
(* An error interface value is one of                                      *)
(*   [kind |-> "nil"]                      the nil interface               *)
(*   [kind |-> "foreign", text |-> t]      an error that is not HTTPError  *)
(*   [kind |-> "custom", ...]              an HTTPError implemented        *)
(*                                         outside this package            *)
(*   [kind |-> "link", id |-> i]           a *baseHTTPError, heap[i]       *)
(***************************************************************************)
EXTENDS Integers, Sequences, FiniteSets, TLC

VARIABLES heap, last, ncalls, unretr

vars == <<heap, last, ncalls, unretr>>

(***************************************************************************)
(* Bounds of the model.                                                    *)
(***************************************************************************)
MaxLinks == 3
MaxCalls == 4

(***************************************************************************)
(* Package constants.                                                      *)
(***************************************************************************)
UninitializedResponseCode == -1
UninitializedErrorCode == ""
UnknownErrorMsg == "Unknown error"
UninitializedStackTrace == "Stack trace unavailable"
StatusInternalServerError == 500
StatusUnauthorized == 401

(***************************************************************************)
(* Inputs the callers draw from.                                           *)
(***************************************************************************)
Msgs == {"", "a", "b"}
ForeignTexts == {"", "test err"}
RespCodes == {UninitializedResponseCode, StatusUnauthorized, StatusInternalServerError}
ErrCodes == {UninitializedErrorCode, "E1", "E2"}

\* Printf calls: a format is a sequence of tokens, "%s" being the verb.
FmtCalls ==
    { [format |-> <<>>, args |-> <<>>],
      [format |-> <<"a">>, args |-> <<>>],
      [format |-> <<"%s">>, args |-> <<"b">>] }

\* The functions that call a constructor: roots are created in main.f,
\* errors are wrapped in main.g.
NewCallers == {"main.f"}
WrapCallers == {"main.g"}

\* What runtime.Stack writes when stackTrace() runs below constructor ctor
\* called from caller: the goroutine header, then two lines per frame for
\* stackTrace, the constructor and the caller.
RawStack(ctor, caller) ==
    <<"goroutine 1 [running]:",
      "httperrors.stackTrace()", "\thttperrors/httperrors.go:323",
      "httperrors." \o ctor \o "()", "\thttperrors/httperrors.go:200",
      caller \o "()", "\t" \o caller \o ".go:10">>

NilErr == [kind |-> "nil"]

\* What a call yields when it panics instead of returning.
PanicVal == [kind |-> "panic"]

ForeignErrs == { [kind |-> "foreign", text |-> t] : t \in ForeignTexts }

\* A value of another type that has every method of interface HTTPError.
CustomErrs ==
    { [kind |-> "custom", text |-> "custom err", respCode |-> 404,
       errCode |-> "E9", stack |-> "custom trace", retriable |-> FALSE] }

LinkRef(i) == [kind |-> "link", id |-> i]

LinkRefs(h) == { LinkRef(i) : i \in 1..Len(h) }

\* Every value a caller can pass where an error is expected.
ErrValues(h) == {NilErr} \cup ForeignErrs \cup CustomErrs \cup LinkRefs(h)

\* err.(*baseHTTPError)
IsBase(v) == v.kind = "link"

\* err.(HTTPError)
IsHTTPError(v) == v.kind \in {"link", "custom"}

\* err.Error() of a value that is not a *baseHTTPError
ErrText(v) == v.text

(***************************************************************************)
(* strings.Join, fmt.Sprintf, stackTrace                                   *)
(***************************************************************************)
RECURSIVE Join(_, _)
Join(elems, sep) ==
    IF Len(elems) = 0 THEN ""
    ELSE IF Len(elems) = 1 THEN elems[1]
    ELSE elems[1] \o sep \o Join(Tail(elems), sep)

RECURSIVE Sprintf(_, _)
Sprintf(format, args) ==
    IF Len(format) = 0
    THEN IF Len(args) = 0 THEN ""
         ELSE "%!(EXTRA " \o Join([i \in 1..Len(args) |-> "string=" \o args[i]], ", ") \o ")"
    ELSE IF Head(format) = "%s"
         THEN IF Len(args) = 0
              THEN "%!s(MISSING)" \o Sprintf(Tail(format), args)
              ELSE Head(args) \o Sprintf(Tail(format), Tail(args))
         ELSE Head(format) \o Sprintf(Tail(format), args)

\* lines[:1] followed by lines[5:], joined by newlines
stackTrace(raw) ==
    Join(SubSeq(raw, 1, 1) \o SubSeq(raw, 6, Len(raw)), "\n")

(***************************************************************************)
(* Accessors of *baseHTTPError; e is the index of the receiver in h.       *)
(***************************************************************************)
\* The loop of Error() without the test for an empty message.
RECURSIVE ErrorMsgs_KeepEmpty(_, _)
ErrorMsgs_KeepEmpty(h, inner) ==
    IF inner.kind = "nil" THEN <<>>
    ELSE IF IsBase(inner)
         THEN <<h[inner.id].msg>> \o ErrorMsgs_KeepEmpty(h, h[inner.id].inner)
         ELSE <<ErrText(inner)>>

RECURSIVE ErrorMsgs(_, _)
ErrorMsgs(h, inner) ==
    IF inner.kind = "nil" THEN <<>>
    ELSE IF IsBase(inner)
         THEN (IF h[inner.id].msg # "" THEN <<h[inner.id].msg>> ELSE <<>>)
              \o ErrorMsgs(h, h[inner.id].inner)
         ELSE <<ErrText(inner)>>

Error(h, e) ==
    LET errorMsgs == ErrorMsgs(h, LinkRef(e))
    IN  Join(IF Len(errorMsgs) = 0 THEN <<UnknownErrorMsg>> ELSE errorMsgs, "\n")

\* Message() that returns the receiver's own message.
Message_OwnOnly(h, e) == h[e].msg

RECURSIVE Message(_, _)
Message(h, e) ==
    IF h[e].msg # "" THEN h[e].msg
    ELSE IF h[e].inner.kind = "nil" THEN UnknownErrorMsg
    ELSE IF ~IsBase(h[e].inner) THEN ErrText(h[e].inner)
    ELSE Message(h, h[e].inner.id)

\* InnerMessage() that returns the innermost message as it is.
RECURSIVE InnerMessage_Raw(_, _)
InnerMessage_Raw(h, e) ==
    IF h[e].inner.kind # "nil"
    THEN IF ~IsBase(h[e].inner) THEN ErrText(h[e].inner)
         ELSE InnerMessage_Raw(h, h[e].inner.id)
    ELSE h[e].msg

RECURSIVE InnerMessage(_, _)
InnerMessage(h, e) ==
    IF h[e].inner.kind # "nil"
    THEN IF ~IsBase(h[e].inner) THEN ErrText(h[e].inner)
         ELSE InnerMessage(h, h[e].inner.id)
    ELSE IF h[e].msg = "" THEN UnknownErrorMsg ELSE h[e].msg

\* ResponseCode() that prefers the code of the wrapped link.
RECURSIVE ResponseCode_InnerWins(_, _)
ResponseCode_InnerWins(h, e) ==
    IF IsBase(h[e].inner)
          /\ ResponseCode_InnerWins(h, h[e].inner.id) # UninitializedResponseCode
    THEN ResponseCode_InnerWins(h, h[e].inner.id)
    ELSE h[e].respCode

RECURSIVE ResponseCode(_, _)
ResponseCode(h, e) ==
    IF h[e].respCode = UninitializedResponseCode
    THEN IF ~IsBase(h[e].inner) THEN h[e].respCode
         ELSE ResponseCode(h, h[e].inner.id)
    ELSE h[e].respCode

RECURSIVE ErrorCode(_, _)
ErrorCode(h, e) ==
    IF h[e].errCode = UninitializedErrorCode
    THEN IF ~IsBase(h[e].inner) THEN h[e].errCode
         ELSE ErrorCode(h, h[e].inner.id)
    ELSE h[e].errCode

RECURSIVE StackTrace(_, _)
StackTrace(h, e) ==
    IF h[e].inner.kind # "nil"
    THEN IF ~IsBase(h[e].inner) THEN h[e].stack
         ELSE StackTrace(h, h[e].inner.id)
    ELSE h[e].stack

\* Retriable() that returns the receiver's own flag.
Retriable_OwnFlag(h, e) == h[e].retriable

RECURSIVE Retriable(_, _)
Retriable(h, e) ==
    IF h[e].inner.kind = "nil" THEN h[e].retriable
    ELSE IF ~IsHTTPError(h[e].inner) THEN TRUE
    ELSE IF IsBase(h[e].inner) THEN Retriable(h, h[e].inner.id)
    ELSE h[e].inner.retriable

(***************************************************************************)
(* Setters of *baseHTTPError: the heap after the assignment to the field   *)
(* of the receiver e.                                                      *)
(***************************************************************************)
\* SetResponseCode that also writes the code into the link the receiver wraps.
SetResponseCodeRes_Propagate(h, e, respCode) ==
    [i \in DOMAIN h |->
        IF i = e \/ LinkRef(i) = h[e].inner
        THEN [h[i] EXCEPT !.respCode = respCode]
        ELSE h[i]]

SetResponseCodeRes(h, e, respCode) == [h EXCEPT ![e].respCode = respCode]

\* SetErrorCode that also resets the response code of the receiver.
SetErrorCodeRes_ClobberRespCode(h, e, errCode) ==
    [h EXCEPT ![e].errCode = errCode, ![e].respCode = UninitializedResponseCode]

SetErrorCodeRes(h, e, errCode) == [h EXCEPT ![e].errCode = errCode]

SetRetriableRes(h, e, retriable) == [h EXCEPT ![e].retriable = retriable]

(***************************************************************************)
(* Constructors, as functions from the heap and the arguments to the new   *)
(* heap and the returned value.                                            *)
(***************************************************************************)
\* The zero value of the fields a composite literal leaves out.
ZeroLink ==
    [msg |-> "", respCode |-> 0, errCode |-> "", stack |-> "",
     inner |-> NilErr, retriable |-> FALSE]

Alloc(h, link) == [heap |-> Append(h, link), ret |-> LinkRef(Len(h) + 1)]

\* Wrap without the nil check: a nil error becomes a root link.
WrapRes_NoNilCheck(h, err, msg, raw) ==
    LET resp == [ZeroLink EXCEPT !.msg = msg,
                                 !.respCode = UninitializedResponseCode,
                                 !.inner = err]
    IN  Alloc(h, IF ~IsBase(err)
                 THEN [resp EXCEPT !.stack = stackTrace(raw)]
                 ELSE resp)

\* Wrap that captures a stack trace whatever it wraps.
WrapRes_AlwaysStack(h, err, msg, raw) ==
    IF err.kind = "nil" THEN [heap |-> h, ret |-> NilErr]
    ELSE Alloc(h, [ZeroLink EXCEPT !.msg = msg,
                                   !.respCode = UninitializedResponseCode,
                                   !.inner = err,
                                   !.stack = stackTrace(raw)])

\* Wrap that stores the address of the new link as its own inner error.
WrapRes_SelfInner(h, err, msg, raw) ==
    IF err.kind = "nil" THEN [heap |-> h, ret |-> NilErr]
    ELSE Alloc(h, [ZeroLink EXCEPT !.msg = msg,
                                   !.respCode = UninitializedResponseCode,
                                   !.inner = LinkRef(Len(h) + 1)])

WrapRes(h, err, msg, raw) ==
    IF err.kind = "nil" THEN [heap |-> h, ret |-> NilErr]
    ELSE LET resp == [ZeroLink EXCEPT !.msg = msg,
                                      !.respCode = UninitializedResponseCode,
                                      !.inner = err]
         IN  Alloc(h, IF ~IsBase(err)
                      THEN [resp EXCEPT !.stack = stackTrace(raw)]
                      ELSE resp)

WrapfRes(h, err, format, args, raw) ==
    IF err.kind = "nil" THEN [heap |-> h, ret |-> NilErr]
    ELSE LET resp == [ZeroLink EXCEPT !.msg = Sprintf(format, args),
                                      !.respCode = UninitializedResponseCode,
                                      !.inner = err]
         IN  Alloc(h, IF ~IsBase(err)
                      THEN [resp EXCEPT !.stack = stackTrace(raw)]
                      ELSE resp)

\* New that leaves the retriable field at its zero value.
NewRes_ZeroRetriable(h, msg, raw) ==
    Alloc(h, [ZeroLink EXCEPT !.msg = msg,
                              !.respCode = UninitializedResponseCode,
                              !.stack = stackTrace(raw)])

NewRes(h, msg, raw) ==
    Alloc(h, [ZeroLink EXCEPT !.msg = msg,
                              !.respCode = UninitializedResponseCode,
                              !.stack = stackTrace(raw),
                              !.retriable = TRUE])

NewfRes(h, format, args, raw) ==
    Alloc(h, [ZeroLink EXCEPT !.msg = Sprintf(format, args),
                              !.respCode = UninitializedResponseCode,
                              !.stack = stackTrace(raw),
                              !.retriable = TRUE])

\* ToHTTPError that wraps whatever it is given.
ToHTTPErrorRes_AlwaysWrap(h, err) ==
    Alloc(h, [ZeroLink EXCEPT !.msg = "",
                              !.respCode = UninitializedResponseCode,
                              !.inner = err,
                              !.stack = UninitializedStackTrace,
                              !.retriable = TRUE])

\* ToHTTPError that leaves the stack field of the new link empty.
ToHTTPErrorRes_NoMarker(h, err) ==
    IF ~IsHTTPError(err)
    THEN Alloc(h, [ZeroLink EXCEPT !.msg = "",
                                   !.respCode = UninitializedResponseCode,
                                   !.inner = err,
                                   !.retriable = TRUE])
    ELSE [heap |-> h, ret |-> err]

ToHTTPErrorRes(h, err) ==
    IF ~IsHTTPError(err)
    THEN Alloc(h, [ZeroLink EXCEPT !.msg = "",
                                   !.respCode = UninitializedResponseCode,
                                   !.inner = err,
                                   !.stack = UninitializedStackTrace,
                                   !.retriable = TRUE])
    ELSE [heap |-> h, ret |-> err]

(***************************************************************************)
(* Utility functions.  The link ToHTTPError may allocate is not retained.  *)
(***************************************************************************)
\* A method call through a non-nil HTTPError interface value.
IfaceResponseCode(h, v) == IF IsBase(v) THEN ResponseCode(h, v.id) ELSE v.respCode

IfaceRetriable(h, v) == IF IsBase(v) THEN Retriable(h, v.id) ELSE v.retriable

\* HTTPResponseCodeFromError that passes the resolved code through.
HTTPResponseCodeFromError_PassThrough(h, err) ==
    LET r == ToHTTPErrorRes(h, err)
    IN  IfaceResponseCode(r.heap, r.ret)

HTTPResponseCodeFromError(h, err) ==
    LET r == ToHTTPErrorRes(h, err)
    IN  IF IfaceResponseCode(r.heap, r.ret) = UninitializedResponseCode
        THEN StatusInternalServerError
        ELSE IfaceResponseCode(r.heap, r.ret)

IsRetriableError(h, err) ==
    IF err.kind = "nil" THEN TRUE
    ELSE LET r == ToHTTPErrorRes(h, err)
         IN  IfaceRetriable(r.heap, r.ret)

IsUnretriableError(h, err) == ~IsRetriableError(h, err)

(***************************************************************************)
(* The state machine: a caller that builds chains and mutates links.       *)
(*   heap    the links allocated so far                                    *)
(*   last    the most recent call: its name, its error argument or         *)
(*           receiver, and the value it returned (PanicVal if it panicked) *)
(*   ncalls  the number of calls made                                      *)
(*   unretr  the links on which SetRetriable(false) has been called        *)
(***************************************************************************)
Init ==
    /\ heap = <<>>
    /\ last = [op |-> "init", arg |-> NilErr, ret |-> NilErr]
    /\ ncalls = 0
    /\ unretr = {}

\* The caller has stopped in a panic.
Panicked == last.ret = PanicVal

\* A call that returned r, within the bounds on calls and on allocated links.
Return(op, arg, r) ==
    /\ ~Panicked
    /\ ncalls < MaxCalls
    /\ Len(r.heap) <= MaxLinks
    /\ heap' = r.heap
    /\ last' = [op |-> op, arg |-> arg, ret |-> r.ret]
    /\ ncalls' = ncalls + 1
    /\ UNCHANGED unretr

New ==
    \E msg \in Msgs, caller \in NewCallers :
        Return("New", NilErr, NewRes(heap, msg, RawStack("New", caller)))

Newf ==
    \E f \in FmtCalls, caller \in NewCallers :
        Return("Newf", NilErr, NewfRes(heap, f.format, f.args, RawStack("Newf", caller)))

Wrap ==
    \E err \in ErrValues(heap), msg \in Msgs, caller \in WrapCallers :
        Return("Wrap", err, WrapRes(heap, err, msg, RawStack("Wrap", caller)))

Wrapf ==
    \E err \in ErrValues(heap), f \in FmtCalls, caller \in WrapCallers :
        Return("Wrapf", err, WrapfRes(heap, err, f.format, f.args, RawStack("Wrapf", caller)))

ToHTTPError ==
    \E err \in ErrValues(heap) :
        Return("ToHTTPError", err, ToHTTPErrorRes(heap, err))

\* The values a setter is called on: a link the caller holds, or the value
\* Wrap or Wrapf has just returned, as in Wrap(err, msg).SetResponseCode(c).
Receivers ==
    LinkRefs(heap)
        \cup (IF last.op \in {"Wrap", "Wrapf"} /\ ~IsHTTPError(last.ret)
              THEN {last.ret} ELSE {})

\* A method call through a nil HTTPError interface value: the run-time
\* panics and the caller makes no further call.
Panic(op, recv) ==
    /\ heap' = heap
    /\ last' = [op |-> op, arg |-> recv, ret |-> PanicVal]
    /\ ncalls' = ncalls + 1
    /\ UNCHANGED unretr

SetResponseCode ==
    \E recv \in Receivers, respCode \in RespCodes :
        /\ ~Panicked
        /\ ncalls < MaxCalls
        /\ IF ~IsBase(recv) THEN Panic("SetResponseCode", recv)
           ELSE /\ heap' = SetResponseCodeRes(heap, recv.id, respCode)
                /\ last' = [op |-> "SetResponseCode", arg |-> recv, ret |-> recv]
                /\ ncalls' = ncalls + 1
                /\ UNCHANGED unretr

SetErrorCode ==
    \E recv \in Receivers, errCode \in ErrCodes :
        /\ ~Panicked
        /\ ncalls < MaxCalls
        /\ IF ~IsBase(recv) THEN Panic("SetErrorCode", recv)
           ELSE /\ heap' = SetErrorCodeRes(heap, recv.id, errCode)
                /\ last' = [op |-> "SetErrorCode", arg |-> recv, ret |-> recv]
                /\ ncalls' = ncalls + 1
                /\ UNCHANGED unretr

SetRetriable ==
    \E recv \in Receivers, retriable \in BOOLEAN :
        /\ ~Panicked
        /\ ncalls < MaxCalls
        /\ IF ~IsBase(recv) THEN Panic("SetRetriable", recv)
           ELSE /\ heap' = SetRetriableRes(heap, recv.id, retriable)
                /\ last' = [op |-> "SetRetriable", arg |-> recv, ret |-> recv]
                /\ ncalls' = ncalls + 1
                /\ unretr' = IF retriable THEN unretr ELSE unretr \cup {recv.id}

Next ==
    \/ New
    \/ Newf
    \/ Wrap
    \/ Wrapf
    \/ ToHTTPError
    \/ SetResponseCode
    \/ SetErrorCode
    \/ SetRetriable

Spec == Init /\ [][Next]_vars

(***************************************************************************)
(* Vocabulary of the properties: the chain that starts at a link.          *)
(***************************************************************************)
\* The links from e inward, outermost first.
RECURSIVE ChainOf(_, _)
ChainOf(h, e) ==
    <<e>> \o (IF h[e].inner.kind = "link" THEN ChainOf(h, h[e].inner.id) ELSE <<>>)

\* The innermost link of the chain that starts at e.
Innermost(h, e) == ChainOf(h, e)[Len(ChainOf(h, e))]

\* What the chain ends in: nil below a root, or the error that is not a link.
Leaf(h, e) == h[Innermost(h, e)].inner

\* The first element of vals that differs from unset, or unset when none does.
FirstSet(vals, unset) ==
    LET idx == { i \in 1..Len(vals) : vals[i] # unset }
    IN  IF idx = {} THEN unset
        ELSE vals[CHOOSE i \in idx : \A j \in idx : i <= j]

RespCodesOf(h, e) == [i \in 1..Len(ChainOf(h, e)) |-> h[ChainOf(h, e)[i]].respCode]

ErrCodesOf(h, e) == [i \in 1..Len(ChainOf(h, e)) |-> h[ChainOf(h, e)[i]].errCode]

MsgsOf(h, e) == [i \in 1..Len(ChainOf(h, e)) |-> h[ChainOf(h, e)[i]].msg]

\* The elements of a sequence of strings with a newline between neighbours.
RECURSIVE NewlineJoined(_)
NewlineJoined(strs) ==
    IF Len(strs) = 0 THEN ""
    ELSE IF Len(strs) = 1 THEN strs[1]
    ELSE NewlineJoined(SubSeq(strs, 1, Len(strs) - 1)) \o "\n" \o strs[Len(strs)]

NonEmpty(str) == str # ""

(***************************************************************************)
(* C1: ResponseCode() and ErrorCode() on a link return the value held by   *)
(* the first link, from the receiver inward, whose field is not the        *)
(* sentinel, and the sentinel when no link of the chain holds one; each    *)
(* code is resolved from its own field only.                               *)
(***************************************************************************)
C1_OutermostWins ==
    \A e \in DOMAIN heap :
        /\ ResponseCode(heap, e) = FirstSet(RespCodesOf(heap, e), UninitializedResponseCode)
        /\ ErrorCode(heap, e) = FirstSet(ErrCodesOf(heap, e), UninitializedErrorCode)

\* An outer link holds 401, the link it wraps was then given 500, and the
\* outer link still resolves to 401.
C1_Witness ==
    \E e \in DOMAIN heap :
        /\ heap[e].inner.kind = "link"
        /\ heap[e].respCode = StatusUnauthorized
        /\ heap[heap[e].inner.id].respCode = StatusInternalServerError
        /\ last.op = "SetResponseCode"
        /\ last.arg = heap[e].inner
        /\ ResponseCode(heap, e) = StatusUnauthorized

\* r is what wrapping err with msg on heap h must produce.
IsWrapOf(r, h, err, msg) ==
    IF err = NilErr
    THEN r = [heap |-> h, ret |-> NilErr]
    ELSE /\ r.ret = LinkRef(Len(h) + 1)
         /\ Len(r.heap) = Len(h) + 1
         /\ SubSeq(r.heap, 1, Len(h)) = h
         /\ r.heap[Len(h) + 1].msg = msg
         /\ r.heap[Len(h) + 1].respCode = UninitializedResponseCode
         /\ r.heap[Len(h) + 1].errCode = UninitializedErrorCode
         /\ r.heap[Len(h) + 1].inner = err

(***************************************************************************)
(* C2: Wrap and Wrapf of a nil error return nil and allocate no link; of   *)
(* a non-nil error they return a new link that holds the message, both     *)
(* codes at their sentinels and the wrapped error as inner.                *)
(***************************************************************************)
C2_NilWrap ==
    /\ \A err \in ErrValues(heap), caller \in WrapCallers :
          /\ \A msg \in Msgs :
                IsWrapOf(WrapRes(heap, err, msg, RawStack("Wrap", caller)), heap, err, msg)
          /\ \A f \in FmtCalls :
                IsWrapOf(WrapfRes(heap, err, f.format, f.args, RawStack("Wrapf", caller)),
                         heap, err, Sprintf(f.format, f.args))
    /\ last.op \in {"Wrap", "Wrapf"} =>
          IF last.arg = NilErr THEN last.ret = NilErr
          ELSE last.ret = LinkRef(Len(heap)) /\ heap[Len(heap)].inner = last.arg

\* Wrap or Wrapf was called with nil while links existed, and returned nil.
C2_Witness ==
    /\ last.op \in {"Wrap", "Wrapf"}
    /\ last.arg = NilErr
    /\ last.ret = NilErr
    /\ Len(heap) > 0

(***************************************************************************)
(* C3: Message() on a link returns the first non-empty message from the    *)
(* receiver inward; when every link of the chain has an empty message it   *)
(* returns the text of the error the chain ends in, and "Unknown error"    *)
(* when the chain ends in a root link.                                     *)
(***************************************************************************)
C3_Message ==
    \A e \in DOMAIN heap :
        Message(heap, e) =
            IF FirstSet(MsgsOf(heap, e), "") # "" THEN FirstSet(MsgsOf(heap, e), "")
            ELSE IF Leaf(heap, e) = NilErr THEN "Unknown error"
            ELSE Leaf(heap, e).text

\* Two layers of empty wrappers over a foreign error: the outer one reports
\* the foreign text.
C3_Witness ==
    \E e \in DOMAIN heap :
        /\ Len(ChainOf(heap, e)) = 2
        /\ \A i \in 1..2 : MsgsOf(heap, e)[i] = ""
        /\ Leaf(heap, e) = [kind |-> "foreign", text |-> "test err"]
        /\ Message(heap, e) = "test err"

\* The texts Error() has to join for the chain from e.
ExpectedParts(h, e) ==
    SelectSeq(MsgsOf(h, e), NonEmpty)
        \o (IF Leaf(h, e) = NilErr THEN <<>> ELSE <<Leaf(h, e).text>>)

(***************************************************************************)
(* C4: Error() on a link returns, joined by newlines and outermost first,  *)
(* the non-empty messages of the links from the receiver inward, followed  *)
(* by the text of the error the chain ends in when it does not end in a    *)
(* root; when there is nothing to join the result is "Unknown error".      *)
(***************************************************************************)
C4_Error ==
    \A e \in DOMAIN heap :
        Error(heap, e) =
            IF ExpectedParts(heap, e) = <<>> THEN "Unknown error"
            ELSE NewlineJoined(ExpectedParts(heap, e))

\* A foreign error wrapped twice with distinct messages prints all three
\* texts, outermost first.
C4_Witness ==
    \E e \in DOMAIN heap :
        /\ MsgsOf(heap, e) = <<"b", "a">>
        /\ Leaf(heap, e) = [kind |-> "foreign", text |-> "test err"]
        /\ Error(heap, e) = "b\na\ntest err"

(***************************************************************************)
(* C5: InnerMessage() is decided by the innermost node alone: the text of  *)
(* the error the chain ends in, else the root's message, else "Unknown     *)
(* error" when the root's message is empty; every link of a chain returns  *)
(* the same value.                                                         *)
(***************************************************************************)
C5_InnerMessage ==
    \A e \in DOMAIN heap :
        /\ InnerMessage(heap, e) =
              IF Leaf(heap, e) # NilErr THEN Leaf(heap, e).text
              ELSE IF heap[Innermost(heap, e)].msg = "" THEN "Unknown error"
              ELSE heap[Innermost(heap, e)].msg
        /\ \A i \in 1..Len(ChainOf(heap, e)) :
              InnerMessage(heap, ChainOf(heap, e)[i]) = InnerMessage(heap, e)

\* A root with a message under two wrappers with other messages.
C5_Witness ==
    \E e \in DOMAIN heap :
        /\ Len(ChainOf(heap, e)) = 3
        /\ Leaf(heap, e) = NilErr
        /\ MsgsOf(heap, e) = <<"b", "", "a">>
        /\ InnerMessage(heap, e) = "a"

(***************************************************************************)
(* C6: in every chain the innermost link, and no other, holds a non-empty  *)
(* stack field; a link that wraps a link holds the empty stack; and        *)
(* StackTrace() on any link returns the stack of the innermost link, so    *)
(* every level of a chain reports the same trace.                          *)
(***************************************************************************)
C6_SingleStack ==
    \A e \in DOMAIN heap :
        /\ (heap[e].stack # "") <=> (e = Innermost(heap, e))
        /\ heap[e].inner.kind = "link" => heap[e].stack = ""
        /\ StackTrace(heap, e) = heap[Innermost(heap, e)].stack
        /\ \A i \in 1..Len(ChainOf(heap, e)) :
              StackTrace(heap, ChainOf(heap, e)[i]) = StackTrace(heap, e)

\* outer = Wrap(Wrap(foreign, ..), ..): the outer link captured nothing and
\* reports the captured trace of the link that wraps the foreign error.
C6_Witness ==
    \E e \in DOMAIN heap :
        /\ Len(ChainOf(heap, e)) = 3
        /\ Leaf(heap, e).kind = "foreign"
        /\ last.op \in {"Wrap", "Wrapf"}
        /\ last.ret = LinkRef(e)
        /\ heap[e].stack = ""
        /\ StackTrace(heap, e) = "goroutine 1 [running]:\nmain.g()\n\tmain.g.go:10"

(***************************************************************************)
(* C7: Retriable() on any link is true when the chain ends in a foreign    *)
(* error and is the retriable flag of the root link when the chain ends    *)
(* in a root; the flags of the other links do not matter.                  *)
(***************************************************************************)
C7_RetriableRooted ==
    \A e \in DOMAIN heap :
        /\ Leaf(heap, e).kind = "foreign" => Retriable(heap, e) = TRUE
        /\ Leaf(heap, e) = NilErr =>
              Retriable(heap, e) = heap[Innermost(heap, e)].retriable

\* SetRetriable(false) was called on a root under two wrappers: the
\* outermost wrapper is not retriable.
C7_Witness ==
    \E e \in DOMAIN heap :
        /\ Len(ChainOf(heap, e)) = 3
        /\ Leaf(heap, e) = NilErr
        /\ last.op = "SetRetriable"
        /\ last.arg = LinkRef(Innermost(heap, e))
        /\ heap[Innermost(heap, e)].retriable = FALSE
        /\ Retriable(heap, e) = FALSE

\* No link of the chain from e was made unretriable, and the chain does not
\* end in an HTTPError of another type that reports itself unretriable.
NeverMadeUnretriable(e) ==
    /\ \A i \in 1..Len(ChainOf(heap, e)) : ChainOf(heap, e)[i] \notin unretr
    /\ Leaf(heap, e).kind = "custom" => Leaf(heap, e).retriable

(***************************************************************************)
(* C8: an error is retriable unless specified otherwise: IsRetriableError  *)
(* is true and IsUnretriableError false of nil, of a foreign error and of  *)
(* every link of a chain on none of whose links SetRetriable(false) was    *)
(* called, and Retriable() is true on every link of such a chain;          *)
(* IsUnretriableError is the negation of IsRetriableError.                 *)
(***************************************************************************)
C8_RetriableByDefault ==
    /\ \A err \in {NilErr} \cup ForeignErrs :
          IsRetriableError(heap, err) /\ ~IsUnretriableError(heap, err)
    /\ \A e \in DOMAIN heap :
          NeverMadeUnretriable(e) =>
              /\ IsRetriableError(heap, LinkRef(e))
              /\ ~IsUnretriableError(heap, LinkRef(e))
              /\ Retriable(heap, e)
    /\ \A err \in ErrValues(heap) :
          IsUnretriableError(heap, err) = ~IsRetriableError(heap, err)

\* A root under a wrapper, codes set on it, SetRetriable(false) never called.
C8_Witness ==
    \E e \in DOMAIN heap :
        /\ Len(ChainOf(heap, e)) = 2
        /\ Leaf(heap, e) = NilErr
        /\ unretr = {}
        /\ last.op \in {"SetResponseCode", "SetErrorCode"}
        /\ IsRetriableError(heap, LinkRef(e))

\* The response code an error resolves to once it is seen as an HTTPError.
ResolvedCode(err) ==
    IF err.kind = "link" THEN ResponseCode(heap, err.id)
    ELSE IF err.kind = "custom" THEN err.respCode
    ELSE UninitializedResponseCode

(***************************************************************************)
(* C9: HTTPResponseCodeFromError never returns the sentinel: it returns    *)
(* the response code the error resolves to when that is not the sentinel   *)
(* and 500 otherwise, in particular for nil, for a foreign error and for   *)
(* a chain with no code set.                                               *)
(***************************************************************************)
C9_ResponseCodeFromError ==
    \A err \in ErrValues(heap) :
        /\ HTTPResponseCodeFromError(heap, err) # -1
        /\ HTTPResponseCodeFromError(heap, err) =
              IF ResolvedCode(err) # -1 THEN ResolvedCode(err) ELSE 500

\* One chain resolves to 401 through its inner link while another link has
\* no code anywhere in its chain.
C9_Witness ==
    \E e, f \in DOMAIN heap :
        /\ heap[e].respCode = UninitializedResponseCode
        /\ ResponseCode(heap, e) = StatusUnauthorized
        /\ HTTPResponseCodeFromError(heap, LinkRef(e)) = StatusUnauthorized
        /\ ResponseCode(heap, f) = UninitializedResponseCode
        /\ HTTPResponseCodeFromError(heap, LinkRef(f)) = StatusInternalServerError

(***************************************************************************)
(* C10: ToHTTPError of a value that is an HTTPError returns that value     *)
(* and leaves every link as it was, allocating none; so applying it to     *)
(* its own result returns that result again.                               *)
(***************************************************************************)
C10_ToHTTPErrorIdentity ==
    /\ \A err \in ErrValues(heap) :
          /\ IsHTTPError(err) => ToHTTPErrorRes(heap, err) = [heap |-> heap, ret |-> err]
          /\ ToHTTPErrorRes(ToHTTPErrorRes(heap, err).heap, ToHTTPErrorRes(heap, err).ret)
                = ToHTTPErrorRes(heap, err)
    /\ (last.op = "ToHTTPError" /\ IsHTTPError(last.arg)) => last.ret = last.arg

\* ToHTTPError was called on a link that wraps another and returned it.
C10_Witness ==
    /\ last.op = "ToHTTPError"
    /\ last.arg.kind = "link"
    /\ heap[last.arg.id].inner.kind = "link"
    /\ last.ret = last.arg

(***************************************************************************)
(* C11: ToHTTPError of a foreign error returns a new link with the empty   *)
(* message, both codes at their sentinels, the error as inner, retriable   *)
(* true and the marker "Stack trace unavailable" as stack; on it           *)
(* StackTrace() is the marker and Message(), InnerMessage() and Error()    *)
(* are the error's text; a captured trace is never the marker nor empty,   *)
(* and wrappers of the link still report the marker.                       *)
(***************************************************************************)
C11_CastForeign ==
    /\ \A err \in ForeignErrs :
          LET r == ToHTTPErrorRes(heap, err)
              n == Len(heap) + 1
          IN  /\ r.ret = LinkRef(n)
              /\ Len(r.heap) = n
              /\ SubSeq(r.heap, 1, Len(heap)) = heap
              /\ r.heap[n] = [msg |-> "", respCode |-> -1, errCode |-> "",
                              stack |-> "Stack trace unavailable",
                              inner |-> err, retriable |-> TRUE]
              /\ StackTrace(r.heap, n) = "Stack trace unavailable"
              /\ Message(r.heap, n) = err.text
              /\ InnerMessage(r.heap, n) = err.text
              /\ Error(r.heap, n) = err.text
    /\ (last.op \in {"New", "Newf", "Wrap", "Wrapf"} /\ last.ret.kind = "link"
            /\ ~IsBase(heap[last.ret.id].inner)) =>
          heap[last.ret.id].stack \notin {"", "Stack trace unavailable"}
    /\ \A e \in DOMAIN heap :
          heap[Innermost(heap, e)].stack = "Stack trace unavailable" =>
              StackTrace(heap, e) = "Stack trace unavailable"

\* A foreign error was cast, the cast link was wrapped, and the wrapper
\* reports the marker.
C11_Witness ==
    \E e \in DOMAIN heap :
        /\ Len(ChainOf(heap, e)) = 2
        /\ Leaf(heap, e) = [kind |-> "foreign", text |-> "test err"]
        /\ heap[Innermost(heap, e)].stack = "Stack trace unavailable"
        /\ last.op \in {"Wrap", "Wrapf"}
        /\ last.ret = LinkRef(e)
        /\ StackTrace(heap, e) = "Stack trace unavailable"

(***************************************************************************)
(* C12: Message(), InnerMessage() and Error() never return the empty       *)
(* string, whatever the messages of the links and the text of the error    *)
(* the chain ends in.                                                      *)
(***************************************************************************)
C12_NeverEmpty ==
    \A e \in DOMAIN heap :
        /\ Message(heap, e) # ""
        /\ InnerMessage(heap, e) # ""
        /\ Error(heap, e) # ""

(***************************************************************************)
(* C13: right after SetRetriable(b) on a link, Retriable() on that link    *)
(* returns b.                                                              *)
(***************************************************************************)
C13_SetThenGet ==
    (last.op = "SetRetriable" /\ IsBase(last.arg)) =>
        Retriable(heap, last.arg.id) = heap[last.arg.id].retriable

\* A step in which setter op ran on a link.
SetterStep(op) ==
    /\ ncalls' = ncalls + 1
    /\ last'.op = op
    /\ IsBase(last'.arg)

(***************************************************************************)
(* C14: a setter changes one field of its receiver, respCode, errCode or   *)
(* retriable, and returns the receiver; the other fields of the receiver   *)
(* and every field of every other link stay as they were.                  *)
(***************************************************************************)
C14_SetterFrame ==
    [][ /\ SetterStep("SetResponseCode") =>
              /\ last'.ret = last'.arg
              /\ heap' = [heap EXCEPT
                            ![last'.arg.id].respCode = heap'[last'.arg.id].respCode]
        /\ SetterStep("SetErrorCode") =>
              /\ last'.ret = last'.arg
              /\ heap' = [heap EXCEPT
                            ![last'.arg.id].errCode = heap'[last'.arg.id].errCode]
        /\ SetterStep("SetRetriable") =>
              /\ last'.ret = last'.arg
              /\ heap' = [heap EXCEPT
                            ![last'.arg.id].retriable = heap'[last'.arg.id].retriable]
      ]_vars

\* SetErrorCode ran on a link that already held a response code, in a heap
\* with another link.
C14_Witness ==
    /\ last.op = "SetErrorCode"
    /\ IsBase(last.arg)
    /\ Len(heap) >= 2
    /\ heap[last.arg.id].errCode = "E1"
    /\ heap[last.arg.id].respCode = StatusUnauthorized

\* Everything the accessors report of link e.
Report(h, e) ==
    <<Error(h, e), Message(h, e), InnerMessage(h, e), ResponseCode(h, e),
      ErrorCode(h, e), StackTrace(h, e), Retriable(h, e)>>

\* The links of the chain that starts at e.
LinksOf(h, e) == { ChainOf(h, e)[i] : i \in 1..Len(ChainOf(h, e)) }

(***************************************************************************)
(* C15: links are shared, not copied: a response code set on a link is     *)
(* what every wrapper of that link without a code of its own resolves to,  *)
(* and a setter on a link changes nothing that the accessors report of a   *)
(* link whose chain does not contain it (the link it wraps, or another     *)
(* wrapper of that link).                                                  *)
(***************************************************************************)
C15_SharedByReference ==
    [][ \A a \in DOMAIN heap :
          /\ (SetterStep("SetResponseCode") /\ last'.arg = LinkRef(a)) =>
                \A b \in DOMAIN heap :
                    (heap[b].inner = LinkRef(a)
                        /\ heap[b].respCode = UninitializedResponseCode) =>
                        /\ ResponseCode(heap', b) = ResponseCode(heap', a)
                        /\ heap'[a].respCode # UninitializedResponseCode =>
                              ResponseCode(heap', b) = heap'[a].respCode
          /\ ((SetterStep("SetResponseCode") \/ SetterStep("SetErrorCode")
                  \/ SetterStep("SetRetriable")) /\ last'.arg = LinkRef(a)) =>
                \A b \in DOMAIN heap :
                    a \notin LinksOf(heap, b) => Report(heap', b) = Report(heap, b)
      ]_vars

\* One link wrapped by two others, then given a code: both wrappers
\* resolve to it.
C15_Witness ==
    \E x, a, b \in DOMAIN heap :
        /\ a # b
        /\ heap[a].inner = LinkRef(x)
        /\ heap[b].inner = LinkRef(x)
        /\ last.op = "SetResponseCode"
        /\ last.arg = LinkRef(x)
        /\ ResponseCode(heap, a) = StatusInternalServerError
        /\ ResponseCode(heap, b) = StatusInternalServerError

(***************************************************************************)
(* C16: every chain is finite and acyclic: the inner reference of a link   *)
(* is a value that existed before the link and is never reassigned, the    *)
(* chain ends in a link without inner error or in an error that is not a   *)
(* link, and every accessor returns a value on every link.                 *)
(***************************************************************************)
C16_FiniteAcyclic ==
    /\ [](\A e \in DOMAIN heap :
            /\ heap[e].inner.kind \in {"nil", "foreign", "custom", "link"}
            /\ heap[e].inner.kind = "link" => heap[e].inner.id \in 1..(e - 1)
            /\ Len(ChainOf(heap, e)) <= e
            /\ Leaf(heap, e).kind \in {"nil", "foreign", "custom"}
            /\ Len(Error(heap, e)) >= 0
            /\ Len(Message(heap, e)) >= 0
            /\ Len(InnerMessage(heap, e)) >= 0
            /\ ResponseCode(heap, e) \in Int
            /\ Len(ErrorCode(heap, e)) >= 0
            /\ Len(StackTrace(heap, e)) >= 0
            /\ Retriable(heap, e) \in BOOLEAN)
    /\ [][\A e \in DOMAIN heap :
            e \in DOMAIN heap' /\ heap'[e].inner = heap[e].inner]_vars

\* A chain of three links over a foreign error, after a setter ran on its
\* middle link.
C16_Witness ==
    \E e \in DOMAIN heap :
        /\ Len(ChainOf(heap, e)) = 3
        /\ Leaf(heap, e).kind = "foreign"
        /\ last.op \in {"SetResponseCode", "SetErrorCode", "SetRetriable"}
        /\ last.arg = heap[e].inner

(***************************************************************************)
(* C17: a setter called on what Wrap or Wrapf returned completes without   *)
(* a fault for every wrapped error: it yields nil when the error was nil   *)
(* and the link otherwise.                                                 *)
(***************************************************************************)
C17_FluentNilSafe ==
    last.op \in {"SetResponseCode", "SetErrorCode", "SetRetriable"} =>
        /\ last.ret # PanicVal
        /\ last.ret = last.arg

\* Method calls through a non-nil HTTPError interface value.
IfaceErrorCode(h, v) == IF IsBase(v) THEN ErrorCode(h, v.id) ELSE v.errCode

IfaceStackTrace(h, v) == IF IsBase(v) THEN StackTrace(h, v.id) ELSE v.stack

(***************************************************************************)
(* C18: for every non-nil error e that ToHTTPError returns unchanged and   *)
(* every message, a fresh wrapper of e reports the response code, error    *)
(* code, stack trace and retriability that e reports.                      *)
(***************************************************************************)
C18_TransparentWrap ==
    \A err \in ErrValues(heap), msg \in Msgs, caller \in WrapCallers :
        (err # NilErr /\ ToHTTPErrorRes(heap, err) = [heap |-> heap, ret |-> err]) =>
            LET r == WrapRes(heap, err, msg, RawStack("Wrap", caller))
            IN  /\ ResponseCode(r.heap, r.ret.id) = IfaceResponseCode(heap, err)
                /\ ErrorCode(r.heap, r.ret.id) = IfaceErrorCode(heap, err)
                /\ StackTrace(r.heap, r.ret.id) = IfaceStackTrace(heap, err)
                /\ Retriable(r.heap, r.ret.id) = IfaceRetriable(heap, err)

====
